---- MODULE Spec2Model ----
(***************************************************************************)
(* Model of the Google-Takeout-to-KML converter: src/convert.py (layers,   *)
(* icons, KML/KMZ) and src/google_maps_to_kml.py (the plain variant).       *)
(*                                                                         *)
(* A Python str is a sequence of lexemes.  Every substring the code        *)
(* searches for ('maps/search/', '!3d', '@', ...) is one lexeme; all other *)
(* text is one lexeme per character.  None is the one-lexeme sequence      *)
(* PyNone, which no str contains.  A float is an integer number of         *)
(* millionths (Scale); an Optional[float] is <<>> (None) or <<v>>.         *)
(***************************************************************************)
EXTENDS Integers, Sequences, FiniteSets, TLC

\* ------------------------------------------------------------------ bounds
\* Rows read in one run, over all the CSV files of the input.
MaxRows == 2
\* CSV members of a ZIP input.
MaxFiles == 2
\* reverse_geocode calls made on one Geocoder.
MaxCalls == 3
\* Places in a list handed to write_kml directly.
MaxPlaces == 2

\* ------------------------------------------------------- program constants
\* Millionths of a degree per degree: six decimals carry every input used.
Scale == 1000000
\* f"{lat:.5f}" keeps five decimals: one cache-key unit is ten millionths.
KeyUnit == 10
\* url[lon_start:lon_start+20]
LonWindow == 20
\* Retry(total=MAX_RETRIES, ...)
MAX_RETRIES == 3
LatMax == 90
LonMax == 180

\* ----------------------------------------------------------------- strings
PyNone == <<"<None>">>
Empty == <<>>

Digit == {"0", "1", "2", "3", "4", "5", "6", "7", "8", "9"}
DigitVal ==
  ("0" :> 0) @@ ("1" :> 1) @@ ("2" :> 2) @@ ("3" :> 3) @@ ("4" :> 4) @@
  ("5" :> 5) @@ ("6" :> 6) @@ ("7" :> 7) @@ ("8" :> 8) @@ ("9" :> 9)
DigitChar == <<"0", "1", "2", "3", "4", "5", "6", "7", "8", "9">>

\* Lexemes longer than one character, with their length in characters.
LexLen(a) ==
  CASE a = "maps/search/" -> 12
    [] a = "maps/place/" -> 11
    [] a = "!3d" -> 3
    [] a = "!4d" -> 3
    [] a = "data=!4m2!3m1!1s" -> 16
    [] a = "https://maps.google.com/" -> 24
    [] a = "https://www.google.com/" -> 23
    [] a = "https://goo.gl/" -> 15
    [] a = "\"featureTypeDescription\":\"" -> 26
    [] a = "\"latitude\":" -> 11
    [] a = "\"longitude\":" -> 12
    [] a = "center=" -> 7
    [] a = "%2C" -> 3
    [] a = "Point Of Interest" -> 17
    [] OTHER -> 1

\* The lexemes that contain the character '!'.
HasBang(a) == a \in {"!", "!3d", "!4d", "data=!4m2!3m1!1s"}

\* `a in s` for a searched-for lexeme a.
Contains(s, a) == \E i \in 1..Len(s) : s[i] = a

\* `w in s` for a word w spelled in characters.
ContainsWord(s, w) ==
  \E i \in 0..(Len(s) - Len(w)) : SubSeq(s, i + 1, i + Len(w)) = w

\* s.find(a), as a 1-based lexeme index; 0 when absent.
Find(s, a) ==
  IF Contains(s, a) THEN CHOOSE i \in 1..Len(s) : s[i] = a /\ \A j \in 1..(i - 1) : s[j] # a
  ELSE 0

\* Character offset of lexeme i of s (0-based, as Python counts).
RECURSIVE CharOffset(_, _)
CharOffset(s, i) == IF i <= 1 THEN 0 ELSE CharOffset(s, i - 1) + LexLen(s[i - 1])

\* s.split(a)[-1]: what follows the last occurrence of a (all of s if none).
SplitLast(s, a) ==
  IF Contains(s, a)
  THEN LET i == CHOOSE k \in 1..Len(s) : s[k] = a /\ \A j \in (k + 1)..Len(s) : s[j] # a
       IN SubSeq(s, i + 1, Len(s))
  ELSE s

\* s.split(a): the list of pieces.
RECURSIVE Split(_, _)
SplitAt(s, a, i) == <<SubSeq(s, 1, i - 1)>> \o Split(SubSeq(s, i + 1, Len(s)), a)
Split(s, a) == IF Contains(s, a) THEN SplitAt(s, a, Find(s, a)) ELSE <<s>>

\* s.split('!')[0]: up to the first lexeme holding a '!'.  (Every such lexeme
\* of the alphabet begins with '!' except data=!4m2!3m1!1s, whose 'data='
\* head stays in the piece: it is rendered as the non-numeric lexeme "d".)
RECURSIVE BeforeBang(_)
BeforeBang(s) ==
  IF s = <<>> THEN <<>>
  ELSE IF HasBang(s[1])
       THEN (IF s[1] = "data=!4m2!3m1!1s" THEN <<"d">> ELSE <<>>)
       ELSE <<s[1]>> \o BeforeBang(Tail(s))

\* s[0:n] in characters; a lexeme cut by the limit leaves the fragment "?".
RECURSIVE TakeChars(_, _)
TakeChars(s, n) ==
  IF s = <<>> \/ n <= 0 THEN <<>>
  ELSE IF LexLen(s[1]) <= n THEN <<s[1]>> \o TakeChars(Tail(s), n - LexLen(s[1]))
       ELSE IF HasBang(s[1]) /\ s[1] # "data=!4m2!3m1!1s" THEN <<"!">>
            ELSE <<"?">>

\* ------------------------------------------------------------------ floats
RECURSIVE IntOf(_)
IntOf(ds) == IF ds = <<>> THEN 0 ELSE IntOf(SubSeq(ds, 1, Len(ds) - 1)) * 10 + DigitVal[ds[Len(ds)]]

RECURSIVE Pow10(_)
Pow10(n) == IF n <= 0 THEN 1 ELSE 10 * Pow10(n - 1)

\* The first n elements of s, or all of s.
Take(s, n) == SubSeq(s, 1, IF Len(s) < n THEN Len(s) ELSE n)

AllDigits(ds) == \A i \in 1..Len(ds) : ds[i] \in Digit

\* The value of integer part ip and fraction fp, in millionths.
Magnitude(ip, fp6) == IntOf(ip) * Scale + IntOf(fp6) * Pow10(6 - Len(fp6))

ParseParts(ip, fp, neg) ==
  IF AllDigits(ip) /\ AllDigits(fp) /\ Len(ip) + Len(fp) >= 1
  THEN <<(IF neg THEN 0 - 1 ELSE 1) * Magnitude(ip, Take(fp, 6))>>
  ELSE <<>>

ParseBody(body, dot, neg) ==
  ParseParts(IF dot = 0 THEN body ELSE SubSeq(body, 1, dot - 1),
             IF dot = 0 THEN <<>> ELSE SubSeq(body, dot + 1, Len(body)),
             neg)

ParseSigned(tok, signed) ==
  ParseBody(IF signed THEN Tail(tok) ELSE tok,
            Find(IF signed THEN Tail(tok) ELSE tok, "."),
            signed /\ tok[1] = "-")

\* float(tok): <<v>> in millionths, or <<>> for ValueError.  Accepts an
\* optional sign, digits and at most one '.', with at least one digit.
ParseFloat(tok) == ParseSigned(tok, tok # <<>> /\ tok[1] \in {"-", "+"})

Abs(v) == IF v < 0 THEN 0 - v ELSE v

RECURSIVE DigitsOf(_)
DigitsOf(n) == IF n < 10 THEN <<DigitChar[n + 1]>> ELSE DigitsOf(n \div 10) \o <<DigitChar[(n % 10) + 1]>>

\* n written with exactly w digits.
RECURSIVE PadDigits(_, _)
PadDigits(n, w) == IF w <= 0 THEN <<>> ELSE PadDigits(n \div 10, w - 1) \o <<DigitChar[(n % 10) + 1]>>

RECURSIVE StripZeros(_)
StripZeros(ds) ==
  IF Len(ds) > 1 /\ ds[Len(ds)] = "0" THEN StripZeros(SubSeq(ds, 1, Len(ds) - 1)) ELSE ds

\* repr of a magnitude below 1e-4: exponent form.
ReprExp(m) ==
  IF m < 10 THEN <<DigitChar[m + 1], "e", "-", "0", "6">>
  ELSE <<DigitChar[(m \div 10) + 1]>>
         \o (IF m % 10 = 0 THEN <<>> ELSE <<".", DigitChar[(m % 10) + 1]>>)
         \o <<"e", "-", "0", "5">>

ReprFixed(m) == DigitsOf(m \div Scale) \o <<".">> \o StripZeros(PadDigits(m % Scale, 6))

ReprMag(m) == IF m > 0 /\ m < 100 THEN ReprExp(m) ELSE ReprFixed(m)

\* repr(float): shortest decimal; exponent form below 1e-4.
FloatRepr(v) == (IF v < 0 THEN <<"-">> ELSE <<>>) \o ReprMag(Abs(v))

\* str(x) for an Optional[float] inside an f-string.
StrOfFloat(x) == IF x = <<>> THEN <<"N", "o", "n", "e">> ELSE FloatRepr(x[1])

\* A magnitude rounded to five decimals (half to even).
Round5(q, r) == IF r * 2 > KeyUnit \/ (r * 2 = KeyUnit /\ q % 2 = 1) THEN q + 1 ELSE q

\* f"{v:.5f}": the sign and the rounded magnitude.
Fmt5(v) == <<v < 0, Round5(Abs(v) \div KeyUnit, Abs(v) % KeyUnit)>>

\* ------------------------------------------------------------------- regex
\* The character class [0-9.-].
NumCh == Digit \cup {".", "-"}

\* Lexemes of page content that begin with a double quote.
FTD == "\"featureTypeDescription\":\""
POI == "Point Of Interest"
BeginsQuote(a) == a \in {"\"", FTD, "\"latitude\":", "\"longitude\":"}

\* Membership of a lexeme in a regex character class: [0-9.-], [^"], \s.
InClass(a, cls) ==
  CASE cls = "num" -> a \in NumCh
    [] cls = "notquote" -> ~BeginsQuote(a)
    [] cls = "space" -> a = " "

\* Length of the longest run of lexemes of class cls that starts at s[i].
RECURSIVE RunLen(_, _, _)
RunLen(s, i, cls) ==
  IF i > Len(s) \/ ~InClass(s[i], cls) THEN 0 ELSE 1 + RunLen(s, i + 1, cls)

\* s has the lexemes lit at position i.
LitAt(s, i, lit) == i + Len(lit) - 1 <= Len(s) /\ SubSeq(s, i, i + Len(lit) - 1) = lit

\* The list `patterns` of the scrape, each `pre([0-9.-]+)mid([0-9.-]+)post`.
patterns ==
  << [pre |-> <<"\"latitude\":">>, mid |-> <<",", "\"longitude\":">>, post |-> <<>>],
     [pre |-> <<"!3d">>, mid |-> <<"!4d">>, post |-> <<>>],
     [pre |-> <<"@">>, mid |-> <<",">>, post |-> <<",">>],
     [pre |-> <<"center=">>, mid |-> <<"%2C">>, post |-> <<>>],
     [pre |-> <<"!3d">>, mid |-> <<"!4d">>, post |-> <<>>] >>

\* The second group and what follows it.
MatchG2(s, pat, a, n1, b, n2) ==
  IF n2 >= 1 /\ LitAt(s, b + n2, pat.post)
  THEN <<SubSeq(s, a, a + n1 - 1), SubSeq(s, b, b + n2 - 1)>>
  ELSE <<>>

\* The first group and the literal between the groups.
MatchG1(s, pat, a, n1) ==
  IF n1 >= 1 /\ LitAt(s, a + n1, pat.mid)
  THEN MatchG2(s, pat, a, n1, a + n1 + Len(pat.mid), RunLen(s, a + n1 + Len(pat.mid), "num"))
  ELSE <<>>

\* The pattern matched at position i: <<group1, group2>>, or <<>>.  A greedy
\* run needs no backtracking here: no literal begins with a class character.
MatchAt(s, i, pat) ==
  IF LitAt(s, i, pat.pre)
  THEN MatchG1(s, pat, i + Len(pat.pre), RunLen(s, i + Len(pat.pre), "num"))
  ELSE <<>>

RECURSIVE SearchFrom(_, _, _)
SearchTry(pat, s, i, m) == IF m # <<>> THEN m ELSE SearchFrom(pat, s, i + 1)
SearchFrom(pat, s, i) == IF i > Len(s) THEN <<>> ELSE SearchTry(pat, s, i, MatchAt(s, i, pat))

\* re.search(pattern, content): the leftmost match's groups, or <<>>.
ReSearch(pat, s) == SearchFrom(pat, s, 1)

\* The group of alternative 1 or 2 of the place-type pattern, given the run
\* of non-quote lexemes after position i.
TypeAlt1(s, i, n) ==
  IF s[i] = FTD /\ n >= 1 /\ i + 1 + n <= Len(s) /\ BeginsQuote(s[i + 1 + n])
  THEN <<SubSeq(s, i + 1, i + n)>> ELSE <<>>

\* After the closing quote at q: \s*:\s*"Point Of Interest"
TypeTail(s, c) == LitAt(s, c, <<":">>) /\ LitAt(s, c + 1 + RunLen(s, c + 1, "space"), <<"\"", POI, "\"">>)

TypeAlt2(s, i, n) ==
  IF /\ s[i] = "\""
     /\ n >= 1
     /\ LitAt(s, i + 1 + n, <<"\"">>)
     /\ TypeTail(s, i + 2 + n + RunLen(s, i + 2 + n, "space"))
  THEN <<SubSeq(s, i + 1, i + n)>> ELSE <<>>

\* "featureTypeDescription":"([^"]+)"|"([^"]+)"\s*:\s*"Point Of Interest"
\* at position i: <<group>> or <<>>.
TypeAtRun(s, i, n) == IF TypeAlt1(s, i, n) # <<>> THEN TypeAlt1(s, i, n) ELSE TypeAlt2(s, i, n)
TypeAt(s, i) == TypeAtRun(s, i, RunLen(s, i + 1, "notquote"))

RECURSIVE TypeFrom(_, _)
TypeTry(s, i, m) == IF m # <<>> THEN m[1] ELSE TypeFrom(s, i + 1)
TypeFrom(s, i) == IF i > Len(s) THEN PyNone ELSE TypeTry(s, i, TypeAt(s, i))

\* re.findall(...)[0], then the first non-empty group; None when no match.
ExtractPlaceType(content) == TypeFrom(content, 1)

\* ---------------------------------------------------------------- Geocoder
\* A cache key: f"{lat:.5f},{lon:.5f}".
CacheKey(lat, lon) == <<Fmt5(lat), Fmt5(lon)>>

\* Outcomes of session.get(GEOCODE_URL, ...) and of reading its response:
\* a JSON object (display_name present or not), or an exception.
GeoOk(name) == [kind |-> "ok", name |-> name]
GeoFail == [kind |-> "fail", name |-> PyNone]

\* A Geocoder that never reads its cache: every call asks the network.
LookupAlwaysAsks(cache, cache_key, go) ==
  IF go.kind = "ok"
  THEN [address |-> go.name, cache |-> (cache_key :> go.name) @@ cache, asked |-> <<cache_key>>]
  ELSE [address |-> PyNone, cache |-> cache, asked |-> <<cache_key>>]

\* A Geocoder that remembers a failed request as an address of None.
LookupCachesFailure(cache, cache_key, go) ==
  IF cache_key \in DOMAIN cache
  THEN [address |-> cache[cache_key], cache |-> cache, asked |-> <<>>]
  ELSE [address |-> go.name,
        cache |-> (cache_key :> go.name) @@ cache,
        asked |-> <<cache_key>>]

\* The lookup of cache_key, and on a miss the request and what it stores.
Lookup(cache, cache_key, go) ==
  IF cache_key \in DOMAIN cache
  THEN [address |-> cache[cache_key], cache |-> cache, asked |-> <<>>]
  ELSE IF go.kind = "ok"
       THEN [address |-> go.name,
             cache |-> (cache_key :> go.name) @@ cache,
             asked |-> <<cache_key>>]
       ELSE [address |-> PyNone, cache |-> cache, asked |-> <<cache_key>>]

\* Geocoder.reverse_geocode(lat, lon) on a cache (a function from keys to
\* addresses): the value returned, the cache afterwards, and the key asked
\* of the network (if any).
reverse_geocode(cache, lat, lon, go) == Lookup(cache, CacheKey(lat, lon), go)

\* ----------------------------------------------------- the retrying session
\* What one HTTP attempt of session.get ends in: an error of the connection
\* (refused, reset, timed out), or a response with its status, whether it
\* carries a Retry-After header, and whether its body is a JSON object.
AttemptError == [kind |-> "error", status |-> 0, retry_after |-> FALSE, json |-> FALSE]
Response(status, retry_after, json) ==
  [kind |-> "response", status |-> status, retry_after |-> retry_after, json |-> json]

\* The statuses the Retry object retries when a Retry-After header came.
RETRY_AFTER_STATUS_CODES == {413, 429, 503}

\* retry = Retry(total=MAX_RETRIES, backoff_factor=0.1): status_forcelist
\* is not given and stays empty.
NewRetry == [total |-> MAX_RETRIES, status_forcelist |-> {}]

\* self.session with the adapter mounted; `sent` are the attempts of the
\* request under way, `state` is "idle", "sending", "responded" (the
\* adapter returned the last response) or "raised" (it raised).
NewSession == [retry |-> NewRetry, sent |-> <<>>, state |-> "idle"]

\* A Retry object that also retries every 5xx response.
is_retry_server_errors(retry, a) ==
  \/ a.status >= 500
  \/ retry.total > 0 /\ a.retry_after /\ a.status \in RETRY_AFTER_STATUS_CODES

\* Whether the Retry object asks for another attempt after response a to
\* a GET: the status is in status_forcelist, or retries are left and the
\* response carries Retry-After with one of the Retry-After statuses.
is_retry(retry, a) ==
  \/ a.status \in retry.status_forcelist
  \/ retry.total > 0 /\ a.retry_after /\ a.status \in RETRY_AFTER_STATUS_CODES

\* One retry is used up; the object is exhausted below zero.
increment(retry) == [retry EXCEPT !.total = @ - 1]
is_exhausted(retry) == retry.total < 0

\* The session after an attempt that is to be retried with `retry` left.
Retried(session, a, retry) ==
  IF is_exhausted(retry)
  THEN [session EXCEPT !.sent = Append(@, a), !.state = "raised"]
  ELSE [session EXCEPT !.sent = Append(@, a), !.retry = retry]

\* The session after one attempt of session.get(GEOCODE_URL, ...) ended in a.
AfterAttempt(session, a) ==
  IF a.kind = "error" \/ is_retry(session.retry, a)
  THEN Retried(session, a, increment(session.retry))
  ELSE [session EXCEPT !.sent = Append(@, a), !.state = "responded"]

\* response.raise_for_status(); data = response.json(): what the rest of
\* the try block makes of the session's request.
Answered(session) ==
  IF /\ session.state = "responded"
     /\ session.sent[Len(session.sent)].status < 400
     /\ session.sent[Len(session.sent)].json
  THEN "ok" ELSE "fail"

\* --------------------------------------------------------- process_csv_row
\* row.get(k, default)
Get(row, k, default) == IF k \in DOMAIN row THEN row[k] ELSE default

LatKeys == <<"Latitude", "latitude", "lat">>
LonKeys == <<"Longitude", "longitude", "lon", "lng">>

\* The first of keys that is a column of row, or "".
RECURSIVE FirstKey(_, _, _)
FirstKey(row, keys, i) ==
  IF i > Len(keys) THEN ""
  ELSE IF keys[i] \in DOMAIN row THEN keys[i] ELSE FirstKey(row, keys, i + 1)

\* x = float(cell)
FloatOfCell(cell) ==
  IF cell = PyNone THEN [exc |-> "TypeError", v |-> <<>>]
  ELSE IF ParseFloat(cell) = <<>> THEN [exc |-> "ValueError", v |-> <<>>]
  ELSE [exc |-> "", v |-> ParseFloat(cell)]

ExplicitAt(row, k) == IF k = "" THEN [exc |-> "", v |-> <<>>] ELSE FloatOfCell(row[k])

\* for key in keys: if key in row: x = float(row[key]); break
ExplicitCoord(row, keys) == ExplicitAt(row, FirstKey(row, keys, 1))

\* lat, lon after `lat = float(t1); lon = float(t2)`, where la and lo are
\* the two conversions; ok when neither raised ValueError.
Assigned(la, lo, lat0, lon0) ==
  [ok |-> la # <<>> /\ lo # <<>>,
   lat |-> IF la = <<>> THEN lat0 ELSE la,
   lon |-> IF la # <<>> /\ lo # <<>> THEN lo ELSE lon0]

\* try: lat = float(t1); lon = float(t2)  except ValueError: pass
ParsePair(t1, t2, lat0, lon0) == Assigned(ParseFloat(t1), ParseFloat(t2), lat0, lon0)

Kept(lat0, lon0) == [ok |-> FALSE, lat |-> lat0, lon |-> lon0]

FromCoords(coords, lat0, lon0) ==
  IF Len(coords) >= 2 THEN ParsePair(coords[1], coords[2], lat0, lon0) ELSE Kept(lat0, lon0)

\* coords = s.split(','); if len(coords) >= 2: try ...
FromCommaList(s, lat0, lon0) == FromCoords(Split(s, ","), lat0, lon0)

FromBangAt(url, i3, i4, lat0, lon0) ==
  IF CharOffset(url, i3) + 3 > 3 /\ CharOffset(url, i4) > CharOffset(url, i3) + 3
  THEN ParsePair(SubSeq(url, i3 + 1, i4 - 1),
                 BeforeBang(TakeChars(SubSeq(url, i4 + 1, Len(url)), LonWindow)),
                 lat0, lon0)
  ELSE Kept(lat0, lon0)

\* The '!3d' ... '!4d' branch: lat_start = find('!3d') + 3, lat_end =
\* find('!4d'), lon_start = find('!4d') + 3.
FromBang(url, lat0, lon0) == FromBangAt(url, Find(url, "!3d"), Find(url, "!4d"), lat0, lon0)

\* The chain with the '@' test moved to the front.
UrlShapeAtFirst(url) ==
  IF Contains(url, "@") THEN "at"
  ELSE IF Contains(url, "maps/search/") THEN "search"
  ELSE IF Contains(url, "!3d") /\ Contains(url, "!4d") THEN "bang"
  ELSE IF Contains(url, "maps/place/") THEN "place"
  ELSE "other"

\* The chain with the 'maps/place/' test moved to the front.
UrlShapePlaceFirst(url) ==
  IF Contains(url, "maps/place/") THEN "place"
  ELSE IF Contains(url, "maps/search/") THEN "search"
  ELSE IF Contains(url, "!3d") /\ Contains(url, "!4d") THEN "bang"
  ELSE IF Contains(url, "@") THEN "at"
  ELSE "other"

\* Which branch of the if/elif chain a URL takes.
UrlShape(url) ==
  IF Contains(url, "maps/search/") THEN "search"
  ELSE IF Contains(url, "!3d") /\ Contains(url, "!4d") THEN "bang"
  ELSE IF Contains(url, "@") THEN "at"
  ELSE IF Contains(url, "maps/place/") THEN "place"
  ELSE "other"

\* Outcomes of requests.get(url, allow_redirects=True): an exception, or a
\* response with its final URL and its body.
FetchRaise == [kind |-> "raise", url |-> Empty, text |-> Empty]
FetchOk(final_url, text) == [kind |-> "ok", url |-> final_url, text |-> text]

\* for pattern in patterns: the groups of the first pattern that matches
\* the content, or <<>>.
RECURSIVE ScanPatterns(_, _)
PatternTry(content, k, m) == IF m # <<>> THEN m ELSE ScanPatterns(content, k + 1)
ScanPatterns(content, k) ==
  IF k > Len(patterns) THEN <<>>
  ELSE PatternTry(content, k, ReSearch(patterns[k], content))

Name(row) == Get(row, "Title", Get(row, "Name", Empty))
Url(row) == Get(row, "URL", Get(row, "Google Maps URL", Empty))

\* The dict returned when the final URL gave the coordinates.
RedirectPlace(row, lat, lon, final_url) ==
  ("name" :> Name(row)) @@ ("lat" :> lat) @@ ("lon" :> lon) @@
  ("url" :> final_url) @@ ("note" :> Get(row, "Note", Empty))

\* The dict returned after the page content was looked at.
ScrapedPlace(row, lat, lon, final_url, place_type) ==
  RedirectPlace(row, lat, lon, final_url) @@ ("type" :> place_type)

\* What the maps/place/ branch leaves: `ret` is the dict it returns, or
\* <<>> when control leaves the branch without returning.
Left(lat, lon) == [ret |-> <<>>, lat |-> lat, lon |-> lon]
Returned(place, lat, lon) == [ret |-> <<place>>, lat |-> lat, lon |-> lon]

\* The place type is looked for and the dict is returned.
ReturnScraped(row, fo, lat, lon) ==
  Returned(ScrapedPlace(row, lat, lon, fo.url, ExtractPlaceType(fo.text)), lat, lon)

\* The first matching pattern's groups are converted; a ValueError is
\* caught by `except Exception` and control leaves the branch.
ScrapeParsed(row, fo, r3) ==
  IF r3.ok THEN ReturnScraped(row, fo, r3.lat, r3.lon) ELSE Left(r3.lat, r3.lon)

ScrapeMatched(row, fo, lat, lon, g) ==
  IF g = <<>> THEN ReturnScraped(row, fo, lat, lon)
  ELSE ScrapeParsed(row, fo, ParsePair(g[1], g[2], lat, lon))

\* if lat is None or lon is None: the patterns are tried on the content.
Scrape(row, fo, lat, lon) ==
  IF lat = <<>> \/ lon = <<>>
  THEN ScrapeMatched(row, fo, lat, lon, ScanPatterns(fo.text, 1))
  ELSE ReturnScraped(row, fo, lat, lon)

\* if '@' in final_url: ...
RedirectParse(final_url, lat0, lon0) ==
  IF Contains(final_url, "@") THEN FromCommaList(SplitLast(final_url, "@"), lat0, lon0)
  ELSE Kept(lat0, lon0)

\* The second look at the final URL, for data=!4m2!3m1!1s URLs.
DataRedirect(row, fo, r2) ==
  IF r2.ok THEN Returned(RedirectPlace(row, r2.lat, r2.lon, fo.url), r2.lat, r2.lon)
  ELSE Scrape(row, fo, r2.lat, r2.lon)

Redirected(row, url, fo, r1) ==
  IF r1.ok THEN Returned(RedirectPlace(row, r1.lat, r1.lon, fo.url), r1.lat, r1.lon)
  ELSE IF Contains(url, "data=!4m2!3m1!1s") /\ fo.url # url
       THEN DataRedirect(row, fo, RedirectParse(fo.url, r1.lat, r1.lon))
       ELSE Scrape(row, fo, r1.lat, r1.lon)

\* The maps/place/ branch.
PlaceBranch(row, url, lat0, lon0, fo) ==
  IF fo.kind = "raise" THEN Left(lat0, lon0)
  ELSE Redirected(row, url, fo, RedirectParse(fo.url, lat0, lon0))

LeftWith(r) == Left(r.lat, r.lon)

UrlBranch(row, url, shape, lat0, lon0, fo) ==
  CASE shape = "search" -> LeftWith(FromCommaList(SplitLast(url, "maps/search/"), lat0, lon0))
    [] shape = "bang" -> LeftWith(FromBang(url, lat0, lon0))
    [] shape = "at" -> LeftWith(FromCommaList(SplitLast(url, "@"), lat0, lon0))
    [] shape = "place" -> PlaceBranch(row, url, lat0, lon0, fo)
    [] OTHER -> Left(lat0, lon0)

\* lat, lon after the if/elif chain over the URL, and the dict returned
\* from inside it (if any).
UrlStage(row, url, lat0, lon0, fo) == UrlBranch(row, url, UrlShape(url), lat0, lon0, fo)

\* -90 <= lat <= 90 and -180 <= lon <= 180
InRange(lat, lon) ==
  /\ 0 - LatMax * Scale <= lat /\ lat <= LatMax * Scale
  /\ 0 - LonMax * Scale <= lon /\ lon <= LonMax * Scale

ErrCouldNot(row) ==
  <<"Could not extract coordinates">> \o
  (IF "URL" \in DOMAIN row \/ "Google Maps URL" \in DOMAIN row
   THEN <<" from URL">> ELSE <<>>)

ErrInvalid(lat, lon) ==
  <<"Invalid coordinates ">> \o FloatRepr(lat) \o <<",">> \o FloatRepr(lon)

RetNone == [kind |-> "none"]
RetRaise(exc) == [kind |-> "raise", exc |-> exc]
RetError(msg) == [kind |-> "error", error |-> msg]
RetPlace(place) == [kind |-> "place", place |-> place]

\* What one call leaves: its result, the cache, the key asked of the
\* geocoding service (if any), the number of requests.get calls.
Outcome(result, cache, asked, fetches) ==
  [result |-> result, cache |-> cache, asked |-> asked, fetches |-> fetches]

\* The dict built at the end of process_csv_row.
FinalPlace(row, lat, lon) ==
  ("name" :> Name(row)) @@ ("lat" :> lat) @@ ("lon" :> lon) @@
  ("url" :> Url(row)) @@ ("note" :> Get(row, "Note", Empty))

\* place['address'] = geocoder.reverse_geocode(place['lat'], place['lon'])
Geocoded(row, lat, lon, g, fetches) ==
  Outcome(RetPlace(FinalPlace(row, lat, lon) @@ ("address" :> g.address)),
          g.cache, g.asked, fetches)

\* The range check and what follows it.
Validate(row, lat, lon, geocoding, cache, go, fetches) ==
  IF ~InRange(lat[1], lon[1])
  THEN Outcome(RetError(ErrInvalid(lat[1], lon[1])), cache, <<>>, fetches)
  ELSE IF geocoding
       THEN Geocoded(row, lat, lon, reverse_geocode(cache, lat[1], lon[1], go), fetches)
       ELSE Outcome(RetPlace(FinalPlace(row, lat, lon)), cache, <<>>, fetches)

\* After the if/elif chain over the URL.
AfterUrl(row, geocoding, cache, go, st, fetches) ==
  IF st.ret # <<>> THEN Outcome(RetPlace(st.ret[1]), cache, <<>>, fetches)
  ELSE IF st.lat = <<>> \/ st.lon = <<>>
       THEN Outcome(RetError(ErrCouldNot(row)), cache, <<>>, fetches)
       ELSE Validate(row, st.lat, st.lon, geocoding, cache, go, fetches)

\* if lat is None or lon is None: the URL is read.
FromUrl(row, geocoding, cache, fo, go, url, lat0, lon0) ==
  IF url = Empty \/ url = PyNone THEN Outcome(RetNone, cache, <<>>, 0)
  ELSE AfterUrl(row, geocoding, cache, go, UrlStage(row, url, lat0, lon0, fo),
                IF UrlShape(url) = "place" THEN 1 ELSE 0)

\* A row reader that goes to the URL whatever the explicit columns hold.
AfterExplicitUrlFirst(row, geocoding, cache, fo, go, elat, elon) ==
  IF elat.exc = "TypeError" \/ (elat.exc = "" /\ elon.exc = "TypeError")
  THEN Outcome(RetRaise("TypeError"), cache, <<>>, 0)
  ELSE IF elat.exc = "ValueError" \/ elon.exc = "ValueError"
       THEN Outcome(RetNone, cache, <<>>, 0)
  ELSE FromUrl(row, geocoding, cache, fo, go, Url(row), <<>>, <<>>)

\* The explicit columns were read: elat, then elon.
AfterExplicit(row, geocoding, cache, fo, go, elat, elon) ==
  IF elat.exc = "TypeError" \/ (elat.exc = "" /\ elon.exc = "TypeError")
  THEN Outcome(RetRaise("TypeError"), cache, <<>>, 0)
  ELSE IF elat.exc = "ValueError" \/ elon.exc = "ValueError"
       THEN Outcome(RetNone, cache, <<>>, 0)
  ELSE IF elat.v # <<>> /\ elon.v # <<>>
       THEN Validate(row, elat.v, elon.v, geocoding, cache, go, 0)
  ELSE FromUrl(row, geocoding, cache, fo, go, Url(row), elat.v, elon.v)

\* process_csv_row(row, geocoder): the result (None, {'error': ...}, a
\* place dict, or an exception that escapes), the geocoder's cache
\* afterwards, the cache key asked of the network (if any), and the number
\* of requests.get calls made.  fo and go are what the network answers.
process_csv_row(row, geocoding, cache, fo, go) ==
  AfterExplicit(row, geocoding, cache, fo, go,
                ExplicitCoord(row, LatKeys), ExplicitCoord(row, LonKeys))

\* ------------------------------------------------------- layers and icons
UpperToLower ==
  ("A" :> "a") @@ ("B" :> "b") @@ ("C" :> "c") @@ ("D" :> "d") @@ ("E" :> "e") @@ ("F" :> "f") @@
  ("G" :> "g") @@ ("H" :> "h") @@ ("I" :> "i") @@ ("J" :> "j") @@ ("K" :> "k") @@ ("L" :> "l") @@
  ("M" :> "m") @@ ("N" :> "n") @@ ("O" :> "o") @@ ("P" :> "p") @@ ("Q" :> "q") @@ ("R" :> "r") @@
  ("S" :> "s") @@ ("T" :> "t") @@ ("U" :> "u") @@ ("V" :> "v") @@ ("W" :> "w") @@ ("X" :> "x") @@
  ("Y" :> "y") @@ ("Z" :> "z")

\* s.lower()
Lower(s) == [i \in 1..Len(s) |-> IF s[i] \in DOMAIN UpperToLower THEN UpperToLower[s[i]] ELSE s[i]]

\* str(x) of a str or None.
StrOf(x) == IF x = PyNone THEN <<"N", "o", "n", "e">> ELSE x

W_hotel == <<"h", "o", "t", "e", "l">>
W_motel == <<"m", "o", "t", "e", "l">>
W_lodging == <<"l", "o", "d", "g", "i", "n", "g">>
W_restaurant == <<"r", "e", "s", "t", "a", "u", "r", "a", "n", "t">>
W_cafe == <<"c", "a", "f", "e">>
W_bar == <<"b", "a", "r">>
W_pub == <<"p", "u", "b">>
W_dining == <<"d", "i", "n", "i", "n", "g">>
W_hiking == <<"h", "i", "k", "i", "n", "g">>
W_trail == <<"t", "r", "a", "i", "l">>
W_swimming == <<"s", "w", "i", "m", "m", "i", "n", "g">>
W_pool == <<"p", "o", "o", "l">>
W_beach == <<"b", "e", "a", "c", "h">>
ScenicSpot == <<"S", "c", "e", "n", "i", "c", " ", "s", "p", "o", "t">>

\* any(x in place_type for x in words)
AnyWord(place_type, words) == \E w \in words : ContainsWord(place_type, w)

SleepWords == {W_hotel, W_motel, W_lodging}
EatWords == {W_restaurant, W_cafe, W_bar, W_pub}

\* An empty place_type becomes 'scenic spot'.
OrScenic(t) == IF t = Empty THEN Lower(ScenicSpot) ELSE t

\* place_type = str(place.get('type', 'Scenic spot')).lower(), with the
\* empty string replaced by 'scenic spot'.
PlaceTypeOf(place) == OrScenic(Lower(StrOf(Get(place, "type", ScenicSpot))))

\* A classification that files 'scenic spot' under Eat.
LayerOfEatFallback(place_type) ==
  IF AnyWord(place_type, SleepWords) THEN "Sleep"
  ELSE IF AnyWord(place_type, EatWords \cup {Lower(ScenicSpot)}) THEN "Eat"
  ELSE "Do"

\* The layer write_kml puts a place of that (lowered) type in.
LayerOf(place_type) ==
  IF AnyWord(place_type, SleepWords) THEN "Sleep"
  ELSE IF AnyWord(place_type, EatWords) THEN "Eat"
  ELSE "Do"

LayerNames == <<"Sleep", "Eat", "Do">>
LayerDesc ==
  [Sleep |-> "Hotels, motels and other lodging",
   Eat |-> "Restaurants, bars and cafes",
   Do |-> "Activities and other places"]

\* The chain of tests of get_icon_url on the lowered type.
IconOfLowered(t) ==
  IF AnyWord(t, {W_hotel, W_motel, W_lodging}) THEN "lodging"
  ELSE IF AnyWord(t, {W_restaurant, W_cafe, W_dining}) THEN "restaurant"
  ELSE IF AnyWord(t, {W_bar, W_pub}) THEN "bar"
  ELSE IF AnyWord(t, {W_hiking, W_trail}) THEN "hiking"
  ELSE IF AnyWord(t, {W_swimming, W_pool, W_beach}) THEN "swimming"
  ELSE "default"

\* get_icon_url(place_type): the key of ICON_MAP whose URL is returned.
get_icon_url(place_type) ==
  IF place_type = PyNone \/ place_type = Empty THEN "scenic"
  ELSE IconOfLowered(Lower(place_type))

\* --------------------------------------------------------------- write_kml
\* f"{place['lon']},{place['lat']},0"
CoordText(place) == StrOfFloat(place["lon"]) \o <<",">> \o StrOfFloat(place["lat"]) \o <<",", "0">>

\* '<br/>'.join(parts)
RECURSIVE Join(_)
Join(parts) ==
  IF parts = <<>> THEN <<>>
  ELSE IF Len(parts) = 1 THEN parts[1]
  ELSE parts[1] \o <<"<br/>">> \o Join(Tail(parts))

\* The description segments of a place, in order.
DescParts(place) ==
  (IF "url" \in DOMAIN place
   THEN <<(<<"<a href=\"">> \o StrOf(place["url"]) \o <<"\">View on Google Maps</a>">>)>>
   ELSE <<>>) \o
  (IF "description" \in DOMAIN place
   THEN <<(<<"<b>Notes:</b> ">> \o StrOf(place["description"]))>> ELSE <<>>) \o
  (IF "address" \in DOMAIN place
   THEN <<(<<"<b>Address:</b> ">> \o StrOf(place["address"]))>> ELSE <<>>) \o
  (IF "phone" \in DOMAIN Get(place, "raw_data", <<>>)
   THEN <<(<<"<b>Phone:</b> ">> \o StrOf(place["raw_data"]["phone"]))>> ELSE <<>>)

\* The Placemark of a place in the aggregate document.
AggPlacemark(place) ==
  [name |-> place["name"],
   icon |-> get_icon_url(PlaceTypeOf(place)),
   coordinates |-> CoordText(place),
   description |-> Join(DescParts(place))]

\* A layer Placemark that writes latitude before longitude.
LayerPlacemarkLatFirst(place) ==
  [name |-> place["name"],
   icon |-> get_icon_url(Get(place, "type", PyNone)),
   coordinates |-> StrOfFloat(place["lat"]) \o <<",">> \o StrOfFloat(place["lon"]) \o <<",", "0">>,
   description |-> Join(DescParts(place))]

\* The Placemark of a place in its layer document.
LayerPlacemark(place) ==
  [name |-> place["name"],
   icon |-> get_icon_url(Get(place, "type", PyNone)),
   coordinates |-> CoordText(place),
   description |-> Join(DescParts(place))]

\* The Placemark of a failed location.
FailedPlacemark(f) ==
  [name |-> f["name"],
   description |-> <<"URL: ">> \o StrOf(Get(f, "url", Empty)) \o <<"\nError: ">>
                     \o StrOf(Get(f, "error", <<"Unknown error">>))]

\* The places of one layer, the last of the list first.
RECURSIVE SelectLayerReversed(_, _)
SelectLayerReversed(places, layer) ==
  IF places = <<>> THEN <<>>
  ELSE SelectLayerReversed(Tail(places), layer)
       \o (IF LayerOf(PlaceTypeOf(places[1])) = layer THEN <<places[1]>> ELSE <<>>)

\* The places of one layer, in the order of the list.
RECURSIVE SelectLayer(_, _)
SelectLayer(places, layer) ==
  IF places = <<>> THEN <<>>
  ELSE (IF LayerOf(PlaceTypeOf(places[1])) = layer THEN <<places[1]>> ELSE <<>>)
       \o SelectLayer(Tail(places), layer)

\* layer['places'] after the loop over places.
LayerPlaces(places) == [l \in {"Sleep", "Eat", "Do"} |-> SelectLayer(places, l)]

\* A dict used as a place must have the keys write_kml indexes.
Renderable(place) == {"name", "lat", "lon"} \subseteq DOMAIN place

\* The layer document of a non-empty layer.
LayerDoc(layer, lplaces) ==
  [kind |-> "layer", layer |-> layer, desc |-> LayerDesc[layer],
   placemarks |-> [i \in 1..Len(lplaces) |-> LayerPlacemark(lplaces[i])]]

\* A document written as plain KML, and as a KMZ archive of one entry.
KmlFile(out, layer, doc) == [out |-> out, layer |-> layer, enc |-> "kml", doc |-> doc]
KmzFile(out, layer, doc) ==
  [out |-> out, layer |-> layer, enc |-> "kmz", entry |-> "doc.kml", doc |-> doc]

BothFiles(out, layer, doc) == <<KmlFile(out, layer, doc), KmzFile(out, layer, doc)>>

\* Layer files written as plain KML only.
LayerFilesKmlOnly(out, layer, lplaces) ==
  IF lplaces = <<>> THEN <<>> ELSE <<KmlFile(out, layer, LayerDoc(layer, lplaces))>>

\* The files of one layer: none for an empty layer, else the layer
\* document as .kml and as .kmz.
LayerFiles(out, layer, lplaces) ==
  IF lplaces = <<>> THEN <<>> ELSE BothFiles(out, layer, LayerDoc(layer, lplaces))

\* The aggregate document: the three layer folders, then Failed Conversions.
AggregateDoc(lp, failed_locations) ==
  [kind |-> "aggregate",
   folders |-> [l \in {"Sleep", "Eat", "Do"} |-> [i \in 1..Len(lp[l]) |-> AggPlacemark(lp[l][i])]],
   failed |-> [i \in 1..Len(failed_locations) |-> FailedPlacemark(failed_locations[i])]]

\* The aggregate file: KMZ or KML, as the caller asks.
AggregateFile(out, doc, kmz) == IF kmz THEN KmzFile(out, "", doc) ELSE KmlFile(out, "", doc)

\* All the files of one call, in the order they are written.
FilesOf(out, lp, failed_locations, kmz) ==
  <<AggregateFile(out, AggregateDoc(lp, failed_locations), kmz)>>
    \o LayerFiles(out, "Sleep", lp["Sleep"])
    \o LayerFiles(out, "Eat", lp["Eat"])
    \o LayerFiles(out, "Do", lp["Do"])

Written(fs, count) == [exc |-> "", files |-> fs, count |-> count]
Raised(exc) == [exc |-> exc, files |-> <<>>, count |-> 0]

\* write_kml of convert.py: the files written, in order, and the count
\* returned; exc is the exception that escapes, if any.
write_kml(out, places, failed_locations, kmz) ==
  IF \E i \in 1..Len(places) : ~Renderable(places[i])
  THEN Raised("KeyError")
  ELSE Written(FilesOf(out, LayerPlaces(places), failed_locations, kmz), Len(places))

\* The Placemark of a place in google_maps_to_kml.py.
PlainPlacemark(place) ==
  [name |-> place["name"],
   coordinates |-> CoordText(place),
   description |-> IF "url" \in DOMAIN place THEN <<place["url"]>> ELSE <<>>,
   address |-> IF "address" \in DOMAIN place THEN <<place["address"]>> ELSE <<>>]

PlainDoc(places, failed_locations) ==
  [kind |-> "plain",
   placemarks |-> [i \in 1..Len(places) |-> PlainPlacemark(places[i])],
   failed |-> [i \in 1..Len(failed_locations) |-> FailedPlacemark(failed_locations[i])]]

\* write_kml of google_maps_to_kml.py.
write_kml_plain(out, places, failed_locations) ==
  IF \E i \in 1..Len(places) : ~Renderable(places[i])
  THEN Raised("KeyError")
  ELSE Written(<<KmlFile(out, "", PlainDoc(places, failed_locations))>>, Len(places))

\* ------------------------------------------------------------------ inputs
\* The strings of the rows and of the network's answers, lexed.
\* 'A'
T_A == <<"A">>
\* 'Cafe X'
T_B == <<"C", "a", "f", "e", " ", "X">>
\* '40.7128'
N_40_7128 == <<"4", "0", ".", "7", "1", "2", "8">>
\* '-74.006'
N_m74_006 == <<"-", "7", "4", ".", "0", "0", "6">>
\* '1.5'
N_1_5 == <<"1", ".", "5">>
\* '2'
N_2 == <<"2">>
\* '3'
N_3 == <<"3">>
\* '4'
N_4 == <<"4">>
\* '91'
N_91 == <<"9", "1">>
\* '0'
N_0 == <<"0">>
\* '181'
N_181 == <<"1", "8", "1">>
\* '90'
N_90 == <<"9", "0">>
\* '-180'
N_m180 == <<"-", "1", "8", "0">>
\* 'abc'
N_abc == <<"a", "b", "c">>
\* 'n1'
S_note == <<"n", "1">>
\* 'd1'
S_desc == <<"d", "1">>
\* '555'
S_phone == <<"5", "5", "5">>
\* 'https://maps.google.com/@40.7128,-74.0060,15z'
U_at ==
  <<"https://maps.google.com/", "@", "4", "0", ".", "7", "1", "2", "8", ",", "-", "7", "4",
     ".", "0", "0", "6", "0", ",", "1", "5", "z">>
\* 'https://maps.google.com/@10,20,15z'
U_at_other == <<"https://maps.google.com/", "@", "1", "0", ",", "2", "0", ",", "1", "5", "z">>
\* 'https://maps.google.com/@40.712801,-74.006,15z'
U_at_twin1 ==
  <<"https://maps.google.com/", "@", "4", "0", ".", "7", "1", "2", "8", "0", "1", ",", "-",
     "7", "4", ".", "0", "0", "6", ",", "1", "5", "z">>
\* 'https://maps.google.com/@40.712804,-74.006'
U_at_twin2 ==
  <<"https://maps.google.com/", "@", "4", "0", ".", "7", "1", "2", "8", "0", "4", ",", "-",
     "7", "4", ".", "0", "0", "6">>
\* 'https://maps.google.com/@200,-74.0060,15z'
U_at_oor ==
  <<"https://maps.google.com/", "@", "2", "0", "0", ",", "-", "7", "4", ".", "0", "0", "6",
     "0", ",", "1", "5", "z">>
\* 'https://maps.google.com/@abc,def'
U_at_bad == <<"https://maps.google.com/", "@", "a", "b", "c", ",", "d", "e", "f">>
\* 'https://goo.gl/u@x'
U_at_one == <<"https://goo.gl/", "u", "@", "x">>
\* 'https://www.google.com/maps/place/X/@48.8584,2.2945,17z'
U_at_place ==
  <<"https://www.google.com/", "maps/place/", "X", "/", "@", "4", "8", ".", "8", "5", "8", "4",
     ",", "2", ".", "2", "9", "4", "5", ",", "1", "7", "z">>
\* 'https://www.google.com/maps/search/48.8584,2.2945'
U_search ==
  <<"https://www.google.com/", "maps/search/", "4", "8", ".", "8", "5", "8", "4", ",", "2",
     ".", "2", "9", "4", "5">>
\* 'https://www.google.com/maps/search/abc'
U_search_one == <<"https://www.google.com/", "maps/search/", "a", "b", "c">>
\* 'https://www.google.com/maps/search/abc,def'
U_search_bad == <<"https://www.google.com/", "maps/search/", "a", "b", "c", ",", "d", "e", "f">>
\* 'https://www.google.com/maps/search/95,10'
U_search_oor == <<"https://www.google.com/", "maps/search/", "9", "5", ",", "1", "0">>
\* 'https://www.google.com/maps/search/p/@40.7128,-74.006,15z'
U_search_at ==
  <<"https://www.google.com/", "maps/search/", "p", "/", "@", "4", "0", ".", "7", "1", "2",
     "8", ",", "-", "7", "4", ".", "0", "0", "6", ",", "1", "5", "z">>
\* 'https://www.google.com/maps/place/X/@10,20,17z/data=!3d48.8584!4d2.2945!5e0'
U_bang ==
  <<"https://www.google.com/", "maps/place/", "X", "/", "@", "1", "0", ",", "2", "0", ",", "1",
     "7", "z", "/", "d", "a", "t", "a", "=", "!3d", "4", "8", ".", "8", "5", "8", "4", "!4d",
     "2", ".", "2", "9", "4", "5", "!", "5", "e", "0">>
\* 'https://www.google.com/maps/place/X/@10,20,17z/data=!3dabc!4d5'
U_bang_bad ==
  <<"https://www.google.com/", "maps/place/", "X", "/", "@", "1", "0", ",", "2", "0", ",", "1",
     "7", "z", "/", "d", "a", "t", "a", "=", "!3d", "a", "b", "c", "!4d", "5">>
\* 'https://www.google.com/maps/@10,20,17z/data=!4d5!3d6'
U_bang_rev ==
  <<"https://www.google.com/", "m", "a", "p", "s", "/", "@", "1", "0", ",", "2", "0", ",", "1",
     "7", "z", "/", "d", "a", "t", "a", "=", "!4d", "5", "!3d", "6">>
\* '!3d1!4d2'
U_bang_first == <<"!3d", "1", "!4d", "2">>
\* 'https://www.google.com/maps/data=!3d40!4d0000000000000000000074'
U_bang_long ==
  <<"https://www.google.com/", "m", "a", "p", "s", "/", "d", "a", "t", "a", "=", "!3d", "4",
     "0", "!4d", "0", "0", "0", "0", "0", "0", "0", "0", "0", "0", "0", "0", "0", "0", "0",
     "0", "0", "0", "0", "0", "7", "4">>
\* 'https://www.google.com/maps/place/X'
U_place == <<"https://www.google.com/", "maps/place/", "X">>
\* 'https://www.google.com/maps/place/X/data=!4m2!3m1!1s0x0'
U_place_data ==
  <<"https://www.google.com/", "maps/place/", "X", "/", "data=!4m2!3m1!1s", "0", "x", "0">>
\* 'https://goo.gl/x'
U_other == <<"https://goo.gl/", "x">>
\* 'https://www.google.com/maps/place/X/@48.8584,2.2945,17z'
FU_at ==
  <<"https://www.google.com/", "maps/place/", "X", "/", "@", "4", "8", ".", "8", "5", "8", "4",
     ",", "2", ".", "2", "9", "4", "5", ",", "1", "7", "z">>
\* 'https://www.google.com/maps/place/X/@95,200,17z'
FU_at_oor ==
  <<"https://www.google.com/", "maps/place/", "X", "/", "@", "9", "5", ",", "2", "0", "0", ",",
     "1", "7", "z">>
\* 'https://www.google.com/maps/place/X/@abc,def'
FU_at_bad ==
  <<"https://www.google.com/", "maps/place/", "X", "/", "@", "a", "b", "c", ",", "d", "e", "f">>
\* 'https://www.google.com/maps/place/X'
FU_plain == <<"https://www.google.com/", "maps/place/", "X">>
\* ''
B_empty == <<>>
\* '{"featureTypeDescription":"Hotel","latitude":48.8584,"longitude":2.2945}'
B_json_hotel ==
  <<"{", "\"featureTypeDescription\":\"", "H", "o", "t", "e", "l", "\"", ",", "\"latitude\":",
     "4", "8", ".", "8", "5", "8", "4", ",", "\"longitude\":", "2", ".", "2", "9", "4", "5",
     "}">>
\* '{"latitude":48.8584,"longitude":2.2945}'
B_json ==
  <<"{", "\"latitude\":", "4", "8", ".", "8", "5", "8", "4", ",", "\"longitude\":", "2", ".",
     "2", "9", "4", "5", "}">>
\* '{"latitude":95,"longitude":10}'
B_json_oor == <<"{", "\"latitude\":", "9", "5", ",", "\"longitude\":", "1", "0", "}">>
\* '<html>'
B_none == <<"<", "h", "t", "m", "l", ">">>
\* '!3d1.2.3!4d5'
B_badnum == <<"!3d", "1", ".", "2", ".", "3", "!4d", "5">>
\* 'center=48.8584%2C2.2945 "Cafe" : "Point Of Interest"'
B_center_poi ==
  <<"center=", "4", "8", ".", "8", "5", "8", "4", "%2C", "2", ".", "2", "9", "4", "5", " ",
     "\"", "C", "a", "f", "e", "\"", " ", ":", " ", "\"", "Point Of Interest", "\"">>
\* '@48.8584,2.2945,17z "featureTypeDescription":"Sports Bar"'
B_at_bar ==
  <<"@", "4", "8", ".", "8", "5", "8", "4", ",", "2", ".", "2", "9", "4", "5", ",", "1", "7",
     "z", " ", "\"featureTypeDescription\":\"", "S", "p", "o", "r", "t", "s", " ", "B", "a",
     "r", "\"">>
\* '"featureTypeDescription":"Hotel"'
B_hotel == <<"\"featureTypeDescription\":\"", "H", "o", "t", "e", "l", "\"">>
\* '"latitude":1.5,"longitude":1.2.3'
B_half ==
  <<"\"latitude\":", "1", ".", "5", ",", "\"longitude\":", "1", ".", "2", ".", "3">>
\* 'NYC'
A_nyc == <<"N", "Y", "C">>

\* Rows as csv.DictReader yields them: a function from the header's columns
\* to cells; a cell missing from a short row is None.
Titled(t) == "Title" :> t
WithUrl(u) == Titled(T_A) @@ ("URL" :> u)

\* Rows that carry explicit coordinate columns.
ExplicitRows ==
  { Titled(T_A) @@ ("Latitude" :> N_40_7128) @@ ("Longitude" :> N_m74_006) @@ ("URL" :> U_at_other),
    Titled(T_A) @@ ("lat" :> N_40_7128) @@ ("lng" :> N_m74_006),
    Titled(T_A) @@ ("Latitude" :> N_1_5) @@ ("lat" :> N_2) @@ ("longitude" :> N_3) @@ ("lon" :> N_4),
    Titled(T_A) @@ ("latitude" :> N_90) @@ ("Longitude" :> N_m180) @@ ("URL" :> U_place),
    Titled(T_A) @@ ("Latitude" :> N_91) @@ ("Longitude" :> N_0) @@ ("URL" :> U_at),
    Titled(T_A) @@ ("Latitude" :> N_0) @@ ("Longitude" :> N_181),
    Titled(T_A) @@ ("Latitude" :> N_abc) @@ ("Longitude" :> N_0) @@ ("URL" :> U_at),
    Titled(T_A) @@ ("Latitude" :> Empty) @@ ("Longitude" :> Empty) @@ ("URL" :> U_at),
    Titled(T_A) @@ ("Latitude" :> N_40_7128) @@ ("Longitude" :> PyNone),
    Titled(T_A) @@ ("lat" :> N_1_5) @@ ("URL" :> U_at_other),
    Titled(T_A) @@ ("lng" :> N_3) @@ ("URL" :> U_search_bad),
    Titled(T_A) @@ ("lat" :> N_abc) @@ ("URL" :> U_place) }

\* Rows whose URL decides, without any network request.
UrlRows ==
  { Titled(T_A),
    WithUrl(Empty),
    WithUrl(PyNone),
    ("Name" :> T_B) @@ ("Google Maps URL" :> U_at),
    Titled(T_B) @@ ("URL" :> U_at) @@ ("Note" :> S_note) @@ ("Description" :> S_desc)
      @@ ("phone" :> S_phone),
    WithUrl(U_at_twin1), WithUrl(U_at_twin2), WithUrl(U_at_oor), WithUrl(U_at_bad),
    WithUrl(U_at_one), WithUrl(U_at_place),
    WithUrl(U_search), WithUrl(U_search_one), WithUrl(U_search_bad), WithUrl(U_search_oor),
    WithUrl(U_search_at),
    WithUrl(U_bang), WithUrl(U_bang_bad), WithUrl(U_bang_rev), WithUrl(U_bang_first),
    WithUrl(U_bang_long),
    WithUrl(U_other) }

\* Rows that reach the maps/place/ request.
PlaceRows ==
  { WithUrl(U_place), WithUrl(U_place_data),
    Titled(T_A) @@ ("lng" :> N_3) @@ ("URL" :> U_place) }

AllRows == ExplicitRows \cup UrlRows \cup PlaceRows

\* What requests.get may answer.
FetchOutcomes ==
  { FetchRaise,
    FetchOk(FU_at, B_empty), FetchOk(FU_at, B_hotel), FetchOk(FU_at_oor, B_empty),
    FetchOk(FU_at_bad, B_json), FetchOk(FU_plain, B_json_hotel), FetchOk(FU_plain, B_json),
    FetchOk(FU_plain, B_json_oor), FetchOk(FU_plain, B_none), FetchOk(FU_plain, B_badnum),
    FetchOk(FU_plain, B_center_poi), FetchOk(FU_plain, B_at_bar), FetchOk(U_place_data, B_hotel),
    FetchOk(FU_plain, B_half) }

\* What the reverse-geocoding request may answer.
GeoOutcomes == { GeoOk(A_nyc), GeoOk(Empty), GeoFail }

\* ------------------------------------------------------------------- state
VARIABLES
  cfg,      \* what main() was started with: script, input kind, --geocode, --kml
  pc,       \* "read", "between" (ZIP: a member done), "done", "aborted"
  fileno,   \* the CSV file being read (1 for a CSV input)
  nread,    \* rows handed to process_csv_row so far
  places,   \* the list `places` of the file being read
  failed,   \* the list `failed` of the file being read
  cache,    \* Geocoder.cache
  files,    \* the files written so far, in order
  report,   \* what the process_* function returns: one entry per file
  log,      \* per row: the row, what process_csv_row returned, the requests
  calls,    \* per reverse_geocode call: key, whether the network was asked
  session   \* Geocoder.session: its Retry object and the request under way

vars == <<cfg, pc, fileno, nread, places, failed, cache, files, report, log, calls, session>>

Configs ==
  { [variant |-> "convert", input |-> i, geocoding |-> g, kmz |-> k] :
      i \in {"csv", "zip"}, g \in BOOLEAN, k \in BOOLEAN }
  \cup
  { [variant |-> "plain", input |-> i, geocoding |-> g, kmz |-> FALSE] :
      i \in {"csv", "zip"}, g \in BOOLEAN }

Init ==
  /\ cfg \in Configs
  /\ pc = "read"
  /\ fileno = 1
  /\ nread = 0
  /\ places = <<>>
  /\ failed = <<>>
  /\ cache = <<>>
  /\ files = <<>>
  /\ report = <<>>
  /\ log = <<>>
  /\ calls = <<>>
  /\ session = NewSession

\* The entry appended to `failed` for a row whose result holds 'error'.
FailedEntry(row, result) ==
  ("name" :> Get(row, "Title", Get(row, "Name", <<"Unknown">>))) @@
  ("url" :> Url(row)) @@ ("error" :> result.error)

\* The dict a result is when it is not None.
ResultDict(result) ==
  IF result.kind = "error" THEN ("error" :> result.error) ELSE result.place

\* process_zip_file of google_maps_to_kml.py appends every truthy result to
\* places; every other loop sorts the results into places and failed.
SortsFailures(c) == ~(c.variant = "plain" /\ c.input = "zip")

\* What the loop does with the result of process_csv_row.  The log keeps,
\* with the row and the result, what the network answered: fo to the
\* requests.get of the row (if it made one), go to its geocoding request.
Collect(row, fo, go, r) ==
  /\ log' = Append(log, [row |-> row, result |-> r.result, asked |-> r.asked,
                         fetches |-> r.fetches, file |-> fileno, fetch |-> fo,
                         geo |-> IF r.asked # <<>> THEN go.kind ELSE ""])
  /\ cache' = r.cache
  /\ nread' = nread + 1
  /\ pc' = IF r.result.kind = "raise" THEN "aborted" ELSE "read"
  /\ places' = IF \/ r.result.kind = "place"
                  \/ (r.result.kind = "error" /\ ~SortsFailures(cfg))
               THEN Append(places, ResultDict(r.result)) ELSE places
  /\ failed' = IF r.result.kind = "error" /\ SortsFailures(cfg)
               THEN Append(failed, FailedEntry(row, r.result)) ELSE failed

\* One turn of the loop over the rows of a file, in a run of at most max rows.
Step(row, fo, go, max) ==
  /\ pc = "read"
  /\ nread < max
  /\ Collect(row, fo, go, process_csv_row(row, cfg.geocoding, cache, fo, go))
  /\ UNCHANGED <<cfg, fileno, files, report, calls, session>>

\* A row that needs no request to the location-reference host.
ReadRow(rows, max) ==
  \E row \in rows \ PlaceRows, go \in GeoOutcomes : Step(row, FetchRaise, go, max)

\* A row that reaches the maps/place/ request, answered by one of answers.
ReadPlaceRow(rows, answers, max) ==
  \E row \in rows \cap PlaceRows, fo \in answers, go \in GeoOutcomes :
    Step(row, fo, go, max)

\* The return value of the function that called write_kml.
Reported(count) ==
  IF cfg.input = "csv"
  THEN [file |-> fileno, success |-> count, failed |-> Len(failed)]
  ELSE [file |-> fileno, success |-> count]

AfterWrite(w) ==
  IF w.exc # ""
  THEN pc' = "aborted" /\ UNCHANGED <<files, report>>
  ELSE /\ files' = files \o w.files
       /\ report' = Append(report, Reported(w.count))
       /\ pc' = IF cfg.input = "zip" THEN "between" ELSE "done"

\* The end of a file: write_kml, then the function's return value.
WriteKml ==
  /\ pc = "read"
  /\ AfterWrite(IF cfg.variant = "convert"
                THEN write_kml(fileno, places, failed, cfg.kmz)
                ELSE write_kml_plain(fileno, places,
                                     IF cfg.input = "zip" THEN <<>> ELSE failed))
  /\ UNCHANGED <<cfg, fileno, nread, places, failed, cache, log, calls, session>>

\* ZIP input: the next CSV member starts with empty lists.
NextFile ==
  /\ pc = "between"
  /\ fileno < MaxFiles
  /\ fileno' = fileno + 1
  /\ places' = <<>>
  /\ failed' = <<>>
  /\ pc' = "read"
  /\ UNCHANGED <<cfg, nread, cache, files, report, log, calls, session>>

\* ZIP input: no member is left.
Finish ==
  /\ pc = "between"
  /\ pc' = "done"
  /\ UNCHANGED <<cfg, fileno, nread, places, failed, cache, files, report, log, calls, session>>

\* Rows of each kind of outcome, for runs of several rows.
BatchRows ==
  { WithUrl(U_at_twin1), WithUrl(U_at_twin2),
    WithUrl(U_at_oor), Titled(T_A),
    Titled(T_A) @@ ("Latitude" :> N_abc) @@ ("Longitude" :> N_0) @@ ("URL" :> U_at),
    Titled(T_A) @@ ("Latitude" :> N_40_7128) @@ ("Longitude" :> PyNone),
    WithUrl(U_place) }

BatchAnswers ==
  { FetchRaise, FetchOk(FU_at_oor, B_empty), FetchOk(FU_plain, B_none),
    FetchOk(FU_plain, B_json_hotel), FetchOk(FU_plain, B_center_poi) }

Next ==
  \/ ReadRow(BatchRows, MaxRows)
  \/ ReadPlaceRow(BatchRows, BatchAnswers, MaxRows)
  \/ WriteKml
  \/ NextFile
  \/ Finish

\* A whole run over a batch of rows.
Spec == Init /\ [][Next]_vars

\* Runs of convert.py without --geocode, and runs with --geocode.
InitLayered == Init /\ cfg.variant = "convert" /\ ~cfg.geocoding
SpecLayered == InitLayered /\ [][Next]_vars

InitGeocoding == Init /\ cfg.geocoding
SpecGeocoding == InitGeocoding /\ [][Next]_vars

\* ---------------------------------------------- process_csv_row on one row
NextRow ==
  \/ ReadRow(AllRows, 1)
  \/ ReadPlaceRow(AllRows, FetchOutcomes, 1)

\* One call of process_csv_row, on every row and every answer.
SpecRow == Init /\ [][NextRow]_vars

\* --------------------------------------------- one Geocoder, called freely
\* Coordinates in millionths: three that share a cache key, two that do
\* not, and a pair either side of zero.
GeoCoords ==
  { <<40712800, 0 - 74006000>>, <<40712801, 0 - 74006000>>, <<40712804, 0 - 74006000>>,
    <<40712806, 0 - 74006000>>, <<48858400, 2294500>>, <<0 - 4, 0>>, <<4, 0>> }

InitGeo ==
  /\ cfg = [variant |-> "convert", input |-> "csv", geocoding |-> TRUE, kmz |-> TRUE]
  /\ pc = "geocoding"
  /\ fileno = 1
  /\ nread = 0
  /\ places = <<>>
  /\ failed = <<>>
  /\ cache = <<>>
  /\ files = <<>>
  /\ report = <<>>
  /\ log = <<>>
  /\ calls = <<>>
  /\ session = NewSession

\* What one call of reverse_geocode leaves; `answer` is what the network
\* answered when it was asked.
Called(c, go, g) ==
  /\ calls' = Append(calls, [lat |-> c[1], lon |-> c[2], key |-> CacheKey(c[1], c[2]),
                             asked |-> g.asked # <<>>,
                             answer |-> IF g.asked # <<>> THEN go.kind ELSE "",
                             address |-> g.address, before |-> cache])
  /\ cache' = g.cache

GeoCall ==
  /\ pc = "geocoding"
  /\ Len(calls) < MaxCalls
  /\ \E c \in GeoCoords, go \in GeoOutcomes :
       Called(c, go, reverse_geocode(cache, c[1], c[2], go))
  /\ UNCHANGED <<cfg, pc, fileno, nread, places, failed, files, report, log, session>>

SpecGeo == InitGeo /\ [][GeoCall]_vars

\* ---- one reverse_geocode call on a cache miss, attempt by attempt
\* What the service and the network may answer to one attempt.
AttemptOutcomes ==
  { AttemptError,
    Response(200, FALSE, TRUE), Response(200, FALSE, FALSE),
    Response(500, FALSE, FALSE), Response(503, FALSE, FALSE),
    Response(503, TRUE, FALSE), Response(429, TRUE, FALSE) }

\* The call is at self.session.get for coordinates not in the cache.
InitRetry ==
  /\ cfg = [variant |-> "convert", input |-> "csv", geocoding |-> TRUE, kmz |-> TRUE]
  /\ pc = "geocoding"
  /\ fileno = 1
  /\ nread = 0
  /\ places = <<>>
  /\ failed = <<>>
  /\ cache = <<>>
  /\ files = <<>>
  /\ report = <<>>
  /\ log = <<>>
  /\ calls = <<>>
  /\ session = [NewSession EXCEPT !.state = "sending"]

\* One HTTP attempt of the adapter.
Attempt ==
  /\ pc = "geocoding"
  /\ session.state = "sending"
  /\ \E a \in AttemptOutcomes : session' = AfterAttempt(session, a)
  /\ UNCHANGED <<cfg, pc, fileno, nread, places, failed, cache, files, report, log, calls>>

\* What reverse_geocode reads from the session: the JSON object of a
\* successful response, or an exception.
SessionOutcome(s) == IF Answered(s) = "ok" THEN GeoOk(A_nyc) ELSE GeoFail

Finished(c, go) == Called(c, go, reverse_geocode(cache, c[1], c[2], go))

\* session.get returned or raised: the rest of reverse_geocode.
Answer ==
  /\ pc = "geocoding"
  /\ session.state \in {"responded", "raised"}
  /\ pc' = "returned"
  /\ \E c \in GeoCoords : Finished(c, SessionOutcome(session))
  /\ UNCHANGED <<cfg, fileno, nread, places, failed, files, report, log, session>>

NextRetry == Attempt \/ Answer

SpecRetry == InitRetry /\ [][NextRetry]_vars

\* ------------------------------------------------ write_kml on any place list
\* Place types as the scraped page gives them.
\* 'Hotel'
K_hotel == <<"H", "o", "t", "e", "l">>
\* 'Sports Bar'
K_bar == <<"S", "p", "o", "r", "t", "s", " ", "B", "a", "r">>
\* 'Cafe'
K_cafe == <<"C", "a", "f", "e">>
\* 'Motel Restaurant'
K_motelrest ==
  <<"M", "o", "t", "e", "l", " ", "R", "e", "s", "t", "a", "u", "r", "a", "n", "t">>
\* 'Park'
K_park == <<"P", "a", "r", "k">>
\* 'Fine Dining'
K_dining == <<"F", "i", "n", "e", " ", "D", "i", "n", "i", "n", "g">>
\* 'Beach'
K_beach == <<"B", "e", "a", "c", "h">>
\* 'LODGING'
K_lodging == <<"L", "O", "D", "G", "I", "N", "G">>
\* 'Pub Trail'
K_pubtrail == <<"P", "u", "b", " ", "T", "r", "a", "i", "l">>

\* A place dict with the keys every returned place has.
Pl(name, lat, lon) == ("name" :> name) @@ ("lat" :> lat) @@ ("lon" :> lon)
Typed(t) == Pl(T_A, <<48858400>>, <<2294500>>) @@ ("url" :> U_place) @@ ("type" :> t)

KmlPlaces ==
  { Pl(T_A, <<40712800>>, <<0 - 74006000>>),
    Pl(T_B, <<>>, <<>>) @@ ("url" :> U_place) @@ ("note" :> Empty) @@ ("type" :> PyNone),
    Typed(Empty),
    Typed(K_hotel) @@ ("address" :> A_nyc),
    Typed(K_bar) @@ ("address" :> PyNone),
    Typed(K_cafe) @@ ("description" :> S_desc) @@ ("raw_data" :> ("phone" :> S_phone)),
    Typed(K_motelrest),
    Typed(K_park),
    Typed(K_dining),
    Typed(K_beach),
    Typed(K_lodging),
    Typed(K_pubtrail) }

KmlFailed ==
  { <<>>,
    << ("name" :> T_A) @@ ("url" :> U_other)
         @@ ("error" :> <<"Could not extract coordinates", " from URL">>) >> }

\* The sequences of at most n elements of S.
ListsOf(S, n) == UNION { [1..k -> S] : k \in 0..n }

InitKml ==
  /\ cfg \in { c \in Configs : c.variant = "convert" /\ c.input = "csv" /\ ~c.geocoding }
  /\ pc = "read"
  /\ fileno = 1
  /\ nread = 0
  /\ places \in ListsOf(KmlPlaces, MaxPlaces)
  /\ failed \in KmlFailed
  /\ cache = <<>>
  /\ files = <<>>
  /\ report = <<>>
  /\ log = <<>>
  /\ calls = <<>>
  /\ session = NewSession

\* One call of write_kml of convert.py, on every list of places.
SpecKml == InitKml /\ [][WriteKml]_vars

\* -------------------------------------------------------------- properties
Layers == {"Sleep", "Eat", "Do"}

\* Both coordinates of a place dict hold a float.
HasBoth(place) == place["lat"] # <<>> /\ place["lon"] # <<>>

OutOfRange(place) == HasBoth(place) /\ ~InRange(place["lat"][1], place["lon"][1])

\* The coordinates texts of the Placemarks of a document.
CoordsIn(doc) ==
  IF doc.kind = "aggregate"
  THEN UNION { { doc.folders[l][k].coordinates : k \in 1..Len(doc.folders[l]) } : l \in Layers }
  ELSE { doc.placemarks[k].coordinates : k \in 1..Len(doc.placemarks) }

\* The number of place Placemarks of a document.
PlacemarkCount(doc) ==
  IF doc.kind = "aggregate"
  THEN Len(doc.folders["Sleep"]) + Len(doc.folders["Eat"]) + Len(doc.folders["Do"])
  ELSE Len(doc.placemarks)

\* Neither a latitude nor a longitude column, under any of the keys.
NoExplicit(row) == FirstKey(row, LatKeys, 1) = "" /\ FirstKey(row, LonKeys, 1) = ""

NoUrl(row) == Url(row) \in {Empty, PyNone}

\* C1: whatever path extracted them, coordinates outside [-90,90] x
\* [-180,180] make the row a Failure: process_csv_row returns no Place with
\* out-of-range coordinates, none is in the places list, none is rendered.
C1_OutOfRangeIsFailure ==
  /\ \A i \in 1..Len(log) :
       log[i].result.kind = "place" => ~OutOfRange(log[i].result.place)
  /\ \A i \in 1..Len(places) : Renderable(places[i]) => ~OutOfRange(places[i])
  /\ \A k \in 1..Len(files), i \in 1..Len(log) :
       (log[i].result.kind = "place" /\ OutOfRange(log[i].result.place))
         => CoordText(log[i].result.place) \notin CoordsIn(files[k].doc)

\* C2: a row with no explicit coordinates and no (or an empty) URL is a
\* Failure, and the loop records it in the failed list.
C2_NoUrlIsFailure ==
  \A i \in 1..Len(log) :
    (NoExplicit(log[i].row) /\ NoUrl(log[i].row)) =>
      /\ log[i].result.kind = "error"
      /\ (i = Len(log) /\ pc = "read" /\ SortsFailures(cfg)) =>
           (failed # <<>> /\ failed[Len(failed)]["error"] = log[i].result.error)

\* C3: after process_csv_file has consumed n rows, success + failed = n,
\* success is the number of rows resolved to a Place, and the aggregate
\* document holds success place Placemarks and failed Failed-Conversions
\* entries.
C3_CountsAddUp ==
  (cfg.input = "csv" /\ pc = "done") =>
    /\ report[1].success + report[1].failed = nread
    /\ report[1].success =
         Cardinality({ i \in 1..Len(log) : log[i].result.kind = "place" })
    /\ PlacemarkCount(files[1].doc) = report[1].success
    /\ Len(files[1].doc.failed) = report[1].failed

\* C4: no row aborts the run: no exception escapes the pipeline, and a row
\* with a malformed or missing numeric field becomes a Failure.
C4_NoRowAbortsTheRun ==
  /\ pc # "aborted"
  /\ \A i \in 1..Len(log) :
       (ExplicitCoord(log[i].row, LatKeys).exc # ""
          \/ ExplicitCoord(log[i].row, LonKeys).exc # "")
         => log[i].result.kind = "error"

\* The float under the first present of keys, <<>> when there is none.
CellFloat(row, keys) ==
  IF FirstKey(row, keys, 1) = "" THEN <<>>
  ELSE IF row[FirstKey(row, keys, 1)] = PyNone THEN <<>>
  ELSE ParseFloat(row[FirstKey(row, keys, 1)])

ValidExplicit(row) ==
  /\ CellFloat(row, LatKeys) # <<>>
  /\ CellFloat(row, LonKeys) # <<>>
  /\ InRange(CellFloat(row, LatKeys)[1], CellFloat(row, LonKeys)[1])

\* C5: a row whose first present latitude key and first present longitude
\* key both hold floats within range is returned as a Place with exactly
\* those two values, whatever its URL holds, and no request is made.
C5_ExplicitColumnsWin ==
  \A i \in 1..Len(log) :
    ValidExplicit(log[i].row) =>
      /\ log[i].result.kind = "place"
      /\ log[i].result.place["lat"] = CellFloat(log[i].row, LatKeys)
      /\ log[i].result.place["lon"] = CellFloat(log[i].row, LonKeys)
      /\ log[i].fetches = 0

\* A row with valid explicit columns and a URL that holds other
\* coordinates, or that would need a request, was returned as a Place.
C5_Witness ==
  \E i \in 1..Len(log) :
    /\ ValidExplicit(log[i].row)
    /\ ~NoUrl(log[i].row)
    /\ UrlShape(Url(log[i].row)) \in {"at", "place"}
    /\ log[i].result.kind = "place"

\* The first of the four patterns a URL structurally matches.
FirstPattern(url) ==
  IF Contains(url, "maps/search/") THEN "search"
  ELSE IF Contains(url, "!3d") /\ Contains(url, "!4d") THEN "bang"
  ELSE IF Contains(url, "@") THEN "at"
  ELSE IF Contains(url, "maps/place/") THEN "place"
  ELSE "none"

\* What the tokens of pattern p of url parse to.
PatternParse(url, p) ==
  CASE p = "search" -> FromCommaList(SplitLast(url, "maps/search/"), <<>>, <<>>)
    [] p = "bang" -> FromBang(url, <<>>, <<>>)
    [] p = "at" -> FromCommaList(SplitLast(url, "@"), <<>>, <<>>)

\* What C6 asks of one logged call whose URL's first pattern parsed to r.
ParsedAs(e, r) ==
  /\ e.fetches = 0
  /\ IF r.ok /\ InRange(r.lat[1], r.lon[1])
     THEN /\ e.result.kind = "place"
          /\ e.result.place["lat"] = r.lat
          /\ e.result.place["lon"] = r.lon
     ELSE e.result.kind = "error"

FirstMatchDecides(e, url, p) ==
  CASE p \in {"search", "bang", "at"} -> ParsedAs(e, PatternParse(url, p))
    [] p = "place" -> e.fetches = 1
    [] OTHER -> e.result.kind = "error" /\ e.fetches = 0

C7_NoPlaceWithoutCoordinates ==
  /\ \A i \in 1..Len(log) :
       log[i].result.kind = "place" => HasBoth(log[i].result.place)
  /\ \A i \in 1..Len(places) : Renderable(places[i]) => HasBoth(places[i])
  /\ \A k \in 1..Len(files), i \in 1..Len(log) :
       (log[i].result.kind = "place" /\ ~HasBoth(log[i].result.place))
         => CoordText(log[i].result.place) \notin CoordsIn(files[k].doc)

\* C8, as stated: of two calls with the same cache key, the later one is a
\* cache hit, whatever the network answered.
C8_OneRequestPerKey ==
  \A i, j \in 1..Len(calls) :
    (i < j /\ calls[i].key = calls[j].key) => ~calls[j].asked

\* C8, amended: once a call for a key was a cache hit or its request
\* succeeded, every later call for that key is a cache hit; so at most one
\* request per key succeeds.
C8_OneSuccessfulRequestPerKey ==
  \A i, j \in 1..Len(calls) :
    (i < j /\ calls[i].key = calls[j].key /\ calls[i].answer # "fail")
      => ~calls[j].asked

\* Two calls with different coordinates and one key: the first asked and
\* was answered, the second was served from the cache.
C8_Witness ==
  \E i, j \in 1..Len(calls) :
    /\ i < j /\ calls[i].key = calls[j].key
    /\ <<calls[i].lat, calls[i].lon>> # <<calls[j].lat, calls[j].lon>>
    /\ calls[i].asked /\ calls[i].answer = "ok"
    /\ ~calls[j].asked /\ calls[j].address = calls[i].address

\* name, coordinates and description of a Placemark.
Core(pm) == <<pm.name, pm.coordinates, pm.description>>

\* The layer documents written for layer l.
LayerDocs(l) ==
  { files[k].doc : k \in { n \in 1..Len(files) : files[n].layer = l } }

\* The layer document d renders the Placemarks of folder, one for one.
SameContent(d, folder) ==
  /\ d.kind = "layer"
  /\ Len(d.placemarks) = Len(folder)
  /\ \A k \in 1..Len(folder) : Core(d.placemarks[k]) = Core(folder[k])

\* C9: every Place of the list is rendered in the aggregate document, and
\* each Placemark of an aggregate folder is rendered in exactly one layer
\* document, that of its layer, with the same name, coordinates and
\* description.
C9_AggregateMatchesLayers ==
  files # <<>> =>
    /\ PlacemarkCount(files[1].doc) = Len(places)
    /\ \A l \in Layers :
         IF files[1].doc.folders[l] = <<>> THEN LayerDocs(l) = {}
         ELSE /\ Cardinality(LayerDocs(l)) = 1
              /\ \A d \in LayerDocs(l) : SameContent(d, files[1].doc.folders[l])

\* Places of two layers, one of them with an address segment, were written.
C9_Witness ==
  /\ files # <<>>
  /\ Cardinality({ l \in Layers : LayerDocs(l) # {} }) >= 2
  /\ \E i \in 1..Len(places) : "address" \in DOMAIN places[i]

\* The category of a place as a text; absent, None and '' are no category.
HasCategory(place) == "type" \in DOMAIN place /\ place["type"] \notin {PyNone, Empty}

SameCategory(p, q) ==
  IF HasCategory(p) /\ HasCategory(q) THEN p["type"] = q["type"]
  ELSE Get(p, "type", <<"<absent>">>) = Get(q, "type", <<"<absent>">>)

\* The Placemarks of the places that a puts in layer l, in list order.
RECURSIVE FolderOf(_, _, _, _)
FolderOf(ps, a, l, i) ==
  IF i > Len(ps) THEN <<>>
  ELSE (IF a[i] = l THEN <<AggPlacemark(ps[i])>> ELSE <<>>) \o FolderOf(ps, a, l, i + 1)

\* C10: the folders of the aggregate document are an assignment of every
\* Place to exactly one of Sleep, Eat, Do, under which Places of the same
\* category share a layer and a Place without category is in Do.
C10_LayerIsAFunctionOfCategory ==
  files # <<>> =>
    \E a \in [1..Len(places) -> Layers] :
      /\ \A l \in Layers : files[1].doc.folders[l] = FolderOf(places, a, l, 1)
      /\ \A i, j \in 1..Len(places) : SameCategory(places[i], places[j]) => a[i] = a[j]
      /\ \A i \in 1..Len(places) : ~HasCategory(places[i]) => a[i] = "Do"

\* A list with a Place without category and a Place of another layer was
\* written.
C10_Witness ==
  /\ files # <<>>
  /\ \E i \in 1..Len(places) : ~HasCategory(places[i])
  /\ files[1].doc.folders["Do"] # <<>>
  /\ files[1].doc.folders["Sleep"] # <<>> \/ files[1].doc.folders["Eat"] # <<>>

\* The category text write_kml classifies: the type as a lowered string,
\* 'scenic spot' when the place has none.
CategoryText(place) == OrScenic(Lower(StrOf(Get(place, "type", ScenicSpot))))

\* The layer of a category under keyword sets sleep and eat, Sleep first.
LayerBy(text, sleep, eat) ==
  IF \E w \in sleep : ContainsWord(text, w) THEN "Sleep"
  ELSE IF \E w \in eat : ContainsWord(text, w) THEN "Eat"
  ELSE "Do"

\* The Placemarks of the places of ps whose category is of layer l under
\* the keyword sets, in list order.
RECURSIVE FolderBy(_, _, _, _, _)
FolderBy(ps, l, sleep, eat, i) ==
  IF i > Len(ps) THEN <<>>
  ELSE (IF LayerBy(CategoryText(ps[i]), sleep, eat) = l THEN <<AggPlacemark(ps[i])>> ELSE <<>>)
       \o FolderBy(ps, l, sleep, eat, i + 1)

\* C11: the folders of the aggregate document are those of the
\* case-insensitive substring match, Sleep before Eat before Do, with
\* Sleep = {hotel, motel, lodging} and Eat = {restaurant, cafe, bar, pub,
\* dining}.
C11_LayerKeywords ==
  files # <<>> =>
    \A l \in Layers :
      files[1].doc.folders[l] =
        FolderBy(places, l, {W_hotel, W_motel, W_lodging},
                 {W_restaurant, W_cafe, W_bar, W_pub, W_dining}, 1)

\* The icon the table gives for a place: scenic without category, else by
\* keyword of the lowered category, else the default.
IconByTable(place) ==
  IF ~HasCategory(place) THEN "scenic"
  ELSE IF AnyWord(Lower(place["type"]), {W_hotel, W_motel, W_lodging}) THEN "lodging"
  ELSE IF AnyWord(Lower(place["type"]), {W_restaurant, W_cafe, W_dining}) THEN "restaurant"
  ELSE IF AnyWord(Lower(place["type"]), {W_bar, W_pub}) THEN "bar"
  ELSE IF AnyWord(Lower(place["type"]), {W_hiking, W_trail}) THEN "hiking"
  ELSE IF AnyWord(Lower(place["type"]), {W_swimming, W_pool, W_beach}) THEN "swimming"
  ELSE "default"

\* The Placemarks pms carry the icons the table gives for the places ps.
IconsByTable(pms, ps) ==
  /\ Len(pms) = Len(ps)
  /\ \A k \in 1..Len(ps) : pms[k].icon = IconByTable(ps[k])

\* C12: in the aggregate document and in every layer document, the icon of
\* each Place is the one the icon table gives for its category (scenic for
\* a Place without category); so the two documents agree on it.
C12_IconByCategory ==
  files # <<>> =>
    \A l \in Layers :
      /\ IconsByTable(files[1].doc.folders[l], SelectLayer(places, l))
      /\ \A d \in LayerDocs(l) : IconsByTable(d.placemarks, SelectLayer(places, l))

\* ------------------------------------------- one row, read and then written
NextRender ==
  \/ ReadRow(AllRows, 1)
  \/ ReadPlaceRow(AllRows, FetchOutcomes, 1)
  \/ WriteKml

\* One row through process_csv_row and, when the file ends, write_kml.
SpecRender == Init /\ [][NextRender]_vars

\* The description of the one Placemark of the aggregate document.
OnlyDescription ==
  files[1].doc.folders[CHOOSE l \in Layers : files[1].doc.folders[l] # <<>>][1].description

\* The row holds a non-empty text under key k.
HasText(row, k) == k \in DOMAIN row /\ row[k] \notin {PyNone, Empty}

\* C13: the description of a resolved Place holds a link segment exactly
\* when the row has a URL, a Notes segment exactly when it has a non-empty
\* Note or Description, an Address segment exactly when an address was
\* geocoded, and a Phone segment exactly when it has a phone field.
C13_DescriptionSegments ==
  (cfg.variant = "convert" /\ files # <<>> /\ Len(log) = 1 /\ log[1].result.kind = "place") =>
    /\ Contains(OnlyDescription, "<a href=\"") <=> ~NoUrl(log[1].row)
    /\ Contains(OnlyDescription, "<b>Notes:</b> ")
         <=> (HasText(log[1].row, "Note") \/ HasText(log[1].row, "Description"))
    /\ Contains(OnlyDescription, "<b>Address:</b> ")
         <=> ("address" \in DOMAIN log[1].result.place
                /\ log[1].result.place["address"] \notin {PyNone, Empty})
    /\ Contains(OnlyDescription, "<b>Phone:</b> ") <=> "phone" \in DOMAIN log[1].row

\* The files that hold document d in encoding enc.
FilesWith(d, enc) == { k \in 1..Len(files) : files[k].doc = d /\ files[k].enc = enc }

\* Every KMZ file is an archive of the one entry doc.kml.
OneEntry == \A k \in 1..Len(files) : files[k].enc = "kmz" => files[k].entry = "doc.kml"

\* One aggregate document, and a layer document for the non-empty layers
\* only.
OneDocPerLayer ==
  /\ Cardinality({ files[k].doc : k \in { n \in 1..Len(files) : files[n].layer = "" } }) = 1
  /\ files[1].doc.kind = "aggregate"
  /\ \A l \in Layers :
       Cardinality(LayerDocs(l)) = IF SelectLayer(places, l) = <<>> THEN 0 ELSE 1

\* C14, as stated: one aggregate document, one layer document per
\* non-empty layer, and every document, the aggregate included, written
\* both as KML and as a one-entry KMZ.
C14_EveryDocumentInBothEncodings ==
  files # <<>> =>
    /\ OneDocPerLayer
    /\ OneEntry
    /\ \A k \in 1..Len(files) :
         FilesWith(files[k].doc, "kml") # {} /\ FilesWith(files[k].doc, "kmz") # {}

\* C14, amended: the aggregate document is written once, as KMZ when the
\* caller asks for KMZ and as KML otherwise; each layer document is written
\* twice, as KML and as a one-entry KMZ.
C14_LayersInBothEncodings ==
  files # <<>> =>
    /\ OneDocPerLayer
    /\ OneEntry
    /\ Cardinality(FilesWith(files[1].doc, IF cfg.kmz THEN "kmz" ELSE "kml")) = 1
    /\ FilesWith(files[1].doc, IF cfg.kmz THEN "kml" ELSE "kmz") = {}
    /\ \A l \in Layers : \A d \in LayerDocs(l) :
         Cardinality(FilesWith(d, "kml")) = 1 /\ Cardinality(FilesWith(d, "kmz")) = 1
    /\ Len(files) = 1 + 2 * Cardinality({ l \in Layers : LayerDocs(l) # {} })

\* A plain-KML call that filled one layer and left another empty.
C14_Witness ==
  /\ files # <<>>
  /\ ~cfg.kmz
  /\ Len(files) = 3
  /\ \E l \in Layers : SelectLayer(places, l) = <<>>

\* The Places process_csv_row returned for the rows of file f, in the order
\* of the rows, from row i on.
RECURSIVE PlacesFrom(_, _)
PlacesFrom(f, i) ==
  IF i > Len(log) THEN <<>>
  ELSE (IF log[i].file = f /\ log[i].result.kind = "place"
        THEN <<log[i].result.place>> ELSE <<>>) \o PlacesFrom(f, i + 1)

\* The Failed Conversions entries of the rows of file f that failed, in the
\* order of the rows, from row i on.
RECURSIVE FailuresFrom(_, _)
FailuresFrom(f, i) ==
  IF i > Len(log) THEN <<>>
  ELSE (IF log[i].file = f /\ log[i].result.kind = "error"
        THEN <<FailedPlacemark(FailedEntry(log[i].row, log[i].result))>> ELSE <<>>)
       \o FailuresFrom(f, i + 1)

\* The keyword sets of the two tests of write_kml.
InOrder(ps, l) ==
  FolderBy(ps, l, {W_hotel, W_motel, W_lodging}, {W_restaurant, W_cafe, W_bar, W_pub}, 1)

SameCores(pms, expected) ==
  /\ Len(pms) = Len(expected)
  /\ \A k \in 1..Len(pms) : Core(pms[k]) = Core(expected[k])

\* What document d of file f holds is in the order of the rows.
RowOrder(d, f) ==
  IF d.kind = "aggregate"
  THEN /\ \A l \in Layers : d.folders[l] = InOrder(PlacesFrom(f, 1), l)
       /\ d.failed = FailuresFrom(f, 1)
  ELSE SameCores(d.placemarks, InOrder(PlacesFrom(f, 1), d.layer))

\* C15: the Places of a layer stand in its folder of the aggregate document
\* and in the layer document in the order of their rows, and the Failures
\* stand in Failed Conversions in the order of their rows.
C15_InputOrderKept ==
  cfg.variant = "convert" =>
    \A k \in 1..Len(files) : RowOrder(files[k].doc, files[k].out)

\* Two rows that resolved to different Places of one layer were written.
C15_Witness ==
  /\ cfg.variant = "convert"
  /\ \E k \in 1..Len(files), l \in Layers :
       /\ files[k].layer = ""
       /\ Len(files[k].doc.folders[l]) >= 2
       /\ files[k].doc.folders[l][1] # files[k].doc.folders[l][2]

\* C16: with geocoding enabled, every Place process_csv_row returned has had
\* reverse_geocode called with its final coordinates and carries the value
\* returned as its address (the key is set by that call and by nothing else).
C16_EveryPlaceGeocoded ==
  cfg.geocoding =>
    \A i \in 1..Len(log) :
      log[i].result.kind = "place" => "address" \in DOMAIN log[i].result.place

\* The first matching pattern of the page has a group float() rejects.
BadGroups(g) == g # <<>> /\ (ParseFloat(g[1]) = <<>> \/ ParseFloat(g[2]) = <<>>)

\* The request of logged call e raised, or the page was scanned (the final
\* URL holds no '@', so nothing was taken from it) and float() raised on a
\* group of the first matching pattern: the exception reached the
\* `except Exception` of the maps/place/ branch.
BranchRaised(e) ==
  /\ e.fetches = 1
  /\ \/ e.fetch.kind = "raise"
     \/ /\ e.fetch.kind = "ok"
        /\ ~Contains(e.fetch.url, "@")
        /\ BadGroups(ScanPatterns(e.fetch.text, 1))

\* C17: when the request for a maps/place/ URL, or the processing of its
\* response, raises, the row is returned as a Failure and the request was
\* made once.
C17_BranchExceptionIsFailure ==
  \A i \in 1..Len(log) :
    BranchRaised(log[i]) => log[i].result.kind = "error" /\ log[i].fetches = 1

\* A cell is present under one of keys and float() raises on it.
CellRaises(row, keys) == FirstKey(row, keys, 1) # "" /\ CellFloat(row, keys) = <<>>

\* The row reaches the request: reading the explicit columns raised
\* nothing and did not give both coordinates, and the URL is not empty and
\* holds maps/place/ but none of maps/search/, both !3d and !4d, or @.
ReachesFallback(row) ==
  /\ ~CellRaises(row, LatKeys) /\ ~CellRaises(row, LonKeys)
  /\ CellFloat(row, LatKeys) = <<>> \/ CellFloat(row, LonKeys) = <<>>
  /\ ~NoUrl(row)
  /\ FirstPattern(Url(row)) = "place"

\* C18: one call of process_csv_row makes the coordinate-extraction GET
\* exactly once when the row reaches the fallback and never otherwise.
C18_OneGetIffFallback ==
  \A i \in 1..Len(log) :
    log[i].fetches = IF ReachesFallback(log[i].row) THEN 1 ELSE 0

\* A row that reached the fallback was read and one request was made.
C18_Witness ==
  \E i \in 1..Len(log) : ReachesFallback(log[i].row) /\ log[i].fetches = 1

\* The row just read made a reverse-geocoding request that failed: the
\* cache is as it was, and the row is a Place with address None that was
\* appended to the places of the file, the run going on.
GeocodeFailureStep ==
  (Len(log') = Len(log) + 1 /\ log'[Len(log')].geo = "fail") =>
    /\ cache' = cache
    /\ log'[Len(log')].result.kind = "place"
    /\ log'[Len(log')].result.place["address"] = PyNone
    /\ places' = Append(places, log'[Len(log')].result.place)
    /\ failed' = failed
    /\ pc' = "read"

\* C19: when the reverse-geocoding request fails, reverse_geocode returns
\* None without raising and leaves the cache unchanged, and the row is
\* still a Place, counted with the successes, whose address is None.
C19_GeocodeFailureKeepsRow == [][GeocodeFailureStep]_vars

\* A row whose reverse-geocoding request failed is among the places.
C19_Witness ==
  \E i \in 1..Len(log) :
    /\ log[i].geo = "fail"
    /\ log[i].result.kind = "place"
    /\ \E k \in 1..Len(places) : places[k] = log[i].result.place

\* The attempts of the request of the call under way or just made.
Attempts == Len(session.sent)

\* Attempt k of the request was followed by another one.
RetriedAfter(k) == k < Attempts

ConnectionErrorOr5xx(a) == a.kind = "error" \/ (a.status >= 500 /\ a.status < 600)

\* C20 as stated: one reverse_geocode call on a cache miss makes at most 3
\* HTTP attempts, and a retry happens only after a connection error or a
\* 5xx response.
C20_AtMostThreeAttempts ==
  /\ Attempts <= 3
  /\ \A k \in 1..Attempts : RetriedAfter(k) => ConnectionErrorOr5xx(session.sent[k])

\* An attempt the session retries: a connection error, or a 413, 429 or
\* 503 response that carries Retry-After.
ErrorOrRetryAfter(a) ==
  \/ a.kind = "error"
  \/ a.retry_after /\ a.status \in {413, 429, 503}

\* C20 amended: one reverse_geocode call on a cache miss makes at most
\* MAX_RETRIES + 1 HTTP attempts, the first and MAX_RETRIES retries; a
\* retry happens only after a connection error or after a 413, 429 or 503
\* response carrying Retry-After, so never after another 5xx response and
\* never after a malformed body; and the call that gave up, or whose body
\* was malformed, returns None and leaves the cache as it was.
C20_AtMostMaxRetriesRetries ==
  /\ Attempts <= MAX_RETRIES + 1
  /\ \A k \in 1..Attempts : RetriedAfter(k) => ErrorOrRetryAfter(session.sent[k])
  /\ \A k \in 1..Len(calls) :
       (session.state = "raised" \/ ~session.sent[Attempts].json
          \/ session.sent[Attempts].status >= 400)
         => calls[k].address = PyNone /\ cache = calls[k].before

\* The call gave up after MAX_RETRIES retries.
C20_Witness ==
  /\ pc = "returned"
  /\ Attempts = MAX_RETRIES + 1
  /\ session.state = "raised"
  /\ calls[1].address = PyNone

\* The page fetched for logged call e holds a place-type string.
PageHasType(e) ==
  e.fetches = 1 /\ e.fetch.kind = "ok" /\ ExtractPlaceType(e.fetch.text) # PyNone

\* C21: a maps/place/ row whose fetched page holds a place-type string
\* (featureTypeDescription, or a key whose value is "Point Of Interest")
\* is returned as a Place that carries that string as its category,
\* whether its coordinates came from the final URL or from the page.
C21_CategoryFromPage ==
  \A i \in 1..Len(log) :
    (PageHasType(log[i]) /\ log[i].result.kind = "place") =>
      /\ "type" \in DOMAIN log[i].result.place
      /\ log[i].result.place["type"] = ExtractPlaceType(log[i].fetch.text)

====
